---- MODULE Spec2Model ----
(***************************************************************************)
(* The chainable query builder of homework_oop/csv_hendler.py              *)
(* (DataProcessor) and the query store of homework_oop/user.py (User).     *)
(*                                                                         *)
(* A record is a Python dict: a sequence of <<key, value>> pairs with      *)
(* distinct keys, in insertion order.  A value is a natural number or      *)
(* None.  An operator is one entry of DataProcessor.operations.            *)
(***************************************************************************)
EXTENDS Integers, Sequences, FiniteSets, TLC

VARIABLES
    original_data,      \* DataProcessor.original_data, per processor
    operations,         \* DataProcessor.operations, per processor
    available_fields,   \* DataProcessor.available_fields, per processor
    current_processor,  \* User.current_processor
    saved_queries,      \* User.saved_queries: query id -> stored query
    last                \* the last call made and what it returned or raised

vars == <<original_data, operations, available_fields, current_processor,
          saved_queries, last>>

----------------------------------------------------------------------------
(* Bounds of the model *)

\* the longest pending operator list a builder is driven to
MaxOps == 3
\* the longest record set the operator semantics are explored on
MaxRecs == 3

----------------------------------------------------------------------------
(* Values, records (dicts) and record sets *)

\* Python's None, encoded below the naturals that stand for the int values
None == -1

\* User.current_processor before set_processor: None
NoProcessor == 0

Range(s) == {s[i] : i \in 1..Len(s)}

Min(x, y) == IF x <= y THEN x ELSE y

Max(x, y) == IF x >= y THEN x ELSE y

\* list(d.keys())
Keys(rec) == [i \in 1..Len(rec) |-> rec[i][1]]

\* key in d
Has(rec, k) == \E i \in 1..Len(rec) : rec[i][1] = k

\* d[key] for a key the dict holds
Item(rec, k) == rec[CHOOSE i \in 1..Len(rec) : rec[i][1] = k][2]

\* d.get(key): None for a missing key
Get(rec, k) == IF Has(rec, k) THEN Item(rec, k) ELSE None

\* d[key] = value: an old key keeps its place, a new key goes last
Put(rec, k, v) ==
    IF Has(rec, k)
    THEN [i \in 1..Len(rec) |-> IF rec[i][1] = k THEN <<k, v>> ELSE rec[i]]
    ELSE Append(rec, <<k, v>>)

\* a record of the two-column schema used for the builder under study
Rec(a, b) == <<(<<"a", a>>), (<<"b", b>>)>>

\* a record of a one-column schema, for a second builder
RecA(a) == <<(<<"a", a>>)>>

----------------------------------------------------------------------------
(* Operators of the pending list: the tuples appended by the declarations *)

NoCond == [field |-> "", test |-> ""]

\* ("select", fields)
SelectOp(fields) ==
    [kind |-> "select", fields |-> fields, cond |-> NoCond, field |-> "",
     reverse |-> FALSE, agg |-> <<>>, n |-> 0]

\* ("where", condition)
WhereOp(cond) ==
    [kind |-> "where", fields |-> <<>>, cond |-> cond, field |-> "",
     reverse |-> FALSE, agg |-> <<>>, n |-> 0]

\* ("sort", field, reverse)
SortOp(field, reverse) ==
    [kind |-> "sort", fields |-> <<>>, cond |-> NoCond, field |-> field,
     reverse |-> reverse, agg |-> <<>>, n |-> 0]

\* ("group_by", field, aggregation or {})
GroupOp(field, aggregation) ==
    [kind |-> "group_by", fields |-> <<>>, cond |-> NoCond, field |-> field,
     reverse |-> FALSE, agg |-> aggregation, n |-> 0]

\* ("limit", n)
LimitOp(n) ==
    [kind |-> "limit", fields |-> <<>>, cond |-> NoCond, field |-> "",
     reverse |-> FALSE, agg |-> <<>>, n |-> n]

\* no operator: what `last` holds for a call that declares none
NoOp ==
    [kind |-> "", fields |-> <<>>, cond |-> NoCond, field |-> "",
     reverse |-> FALSE, agg |-> <<>>, n |-> 0]

\* an aggregation dict {key: function}: its items in insertion order
Agg1(k, f) == <<[key |-> k, fn |-> f]>>

Agg2(k1, f1, k2, f2) == <<[key |-> k1, fn |-> f1], [key |-> k2, fn |-> f2]>>

AggKeys(aggregation) == [i \in 1..Len(aggregation) |-> aggregation[i].key]

----------------------------------------------------------------------------
(* Aggregation helpers *)

RECURSIVE SumSeq(_)
SumSeq(values) ==
    IF values = <<>> THEN 0 ELSE Head(values) + SumSeq(Tail(values))

RECURSIVE MaxSeq(_)
MaxSeq(values) ==
    IF Len(values) = 1 THEN Head(values)
    ELSE Max(Head(values), MaxSeq(Tail(values)))

RECURSIVE MinSeq(_)
MinSeq(values) ==
    IF Len(values) = 1 THEN Head(values)
    ELSE Min(Head(values), MinSeq(Tail(values)))

\* agg_func(values) for sum_agg, count_agg, max_agg, min_agg and for a
\* callable of the caller's, lambda values: values[0]
CallAgg(fn, values) ==
    CASE fn = "sum_agg" -> SumSeq(values)
      [] fn = "count_agg" -> Len(values)
      [] fn = "max_agg" -> IF values # <<>> THEN MaxSeq(values) ELSE None
      [] fn = "min_agg" -> IF values # <<>> THEN MinSeq(values) ELSE None
      [] fn = "first" -> values[1]

----------------------------------------------------------------------------
(* The planner *)

OfKind(ops, kind) == SelectSeq(ops, LAMBDA op : op.kind = kind)

\* the planner with SORT put before GROUP BY
OptimizeSortFirst(ops) ==
    IF ops = <<>> THEN <<>>
    ELSE OfKind(ops, "where") \o OfKind(ops, "sort") \o OfKind(ops, "group_by")
         \o OfKind(ops, "select") \o OfKind(ops, "limit")

\* the planner leaving the declared order as it is
OptimizeDeclared(ops) == ops

\* WHERE -> GROUP BY -> SORT -> SELECT -> LIMIT
OptimizeOperationsOrder(ops) ==
    IF ops = <<>> THEN <<>>
    ELSE OfKind(ops, "where") \o OfKind(ops, "group_by") \o OfKind(ops, "sort")
         \o OfKind(ops, "select") \o OfKind(ops, "limit")

----------------------------------------------------------------------------
(* The executor's operators *)

\* {field: item.get(field) for field in fields}, built left to right
RECURSIVE SelectItem(_, _, _)
SelectItem(item, fields, acc) ==
    IF fields = <<>> THEN acc
    ELSE SelectItem(item, Tail(fields), Put(acc, Head(fields), Get(item, Head(fields))))

\* select keeping only the requested fields the record has
ApplySelectPresentOnly(data, fields) ==
    [i \in 1..Len(data) |->
        SelectItem(data[i], SelectSeq(fields, LAMBDA f : Has(data[i], f)), <<>>)]

\* _apply_select
ApplySelect(data, fields) ==
    [i \in 1..Len(data) |-> SelectItem(data[i], fields, <<>>)]

\* condition(item) raises: x[field] on a missing key (KeyError), x[field] > 1
\* on None (TypeError)
CondRaises(item, cond) ==
    \/ ~Has(item, cond.field)
    \/ cond.test = "gt1" /\ Item(item, cond.field) = None

\* condition(item) for an item it does not raise on
CondHolds(item, cond) ==
    IF cond.test = "is_none" THEN Item(item, cond.field) = None
    ELSE Item(item, cond.field) > 1

WhereRaises(data, cond) == \E i \in 1..Len(data) : CondRaises(data[i], cond)

\* _apply_where, when no call of the condition raises
ApplyWhere(data, cond) == SelectSeq(data, LAMBDA item : CondHolds(item, cond))

\* sorted() raises: itemgetter(field) on a record without the key (KeyError),
\* or a comparison with None among two or more records (TypeError)
SortRaises(data, field, reverse) ==
    \/ \E i \in 1..Len(data) : ~Has(data[i], field)
    \/ Len(data) >= 2 /\ \E i \in 1..Len(data) : Item(data[i], field) = None

\* x goes before y in the requested direction
Before(x, y, field, reverse) ==
    IF reverse THEN Item(x, field) > Item(y, field)
    ELSE Item(x, field) < Item(y, field)

\* item inserted behind every element it does not go before
InsertSorted(done, item, field, reverse) ==
    LET later == {j \in 1..Len(done) : Before(item, done[j], field, reverse)}
        at == IF later = {} THEN Len(done) + 1
              ELSE CHOOSE j \in later : \A k \in later : j <= k
    IN  SubSeq(done, 1, at - 1) \o <<item>> \o SubSeq(done, at, Len(done))

RECURSIVE SortFrom(_, _, _, _)
SortFrom(done, rest, field, reverse) ==
    IF rest = <<>> THEN done
    ELSE SortFrom(InsertSorted(done, Head(rest), field, reverse), Tail(rest),
                  field, reverse)

\* a descending sort done as the ascending sort read backwards, which turns
\* the records of equal value around
ApplySortBackwards(data, field, reverse) ==
    LET up == SortFrom(<<>>, data, field, FALSE)
    IN  IF reverse THEN [i \in 1..Len(up) |-> up[Len(up) + 1 - i]] ELSE up

\* _apply_sort, when sorted() does not raise: a stable sort, reverse included
ApplySort(data, field, reverse) == SortFrom(<<>>, data, field, reverse)

\* the loop filling `groups`: a dict, kept as its items in insertion order
RECURSIVE CollectGroups(_, _, _)
CollectGroups(groups, data, field) ==
    IF data = <<>> THEN groups
    ELSE LET item == Head(data)
             group_key == Get(item, field)
             at == {g \in 1..Len(groups) : groups[g].key = group_key}
             next == IF at = {}
                     THEN Append(groups, [key |-> group_key, items |-> <<item>>])
                     ELSE [g \in 1..Len(groups) |->
                             IF g \in at
                             THEN [groups[g] EXCEPT !.items = Append(@, item)]
                             ELSE groups[g]]
         IN  CollectGroups(next, Tail(data), field)

\* the values of a group with None kept among them
AggValuesWithNone(group_items, agg_field) ==
    [j \in 1..Len(group_items) |-> Get(group_items[j], agg_field)]

\* [item.get(agg_field) for item in group_items if item.get(agg_field) is not None]
RECURSIVE AggValues(_, _)
AggValues(group_items, agg_field) ==
    IF group_items = <<>> THEN <<>>
    ELSE LET v == Get(Head(group_items), agg_field)
         IN  (IF v # None THEN <<v>> ELSE <<>>) \o AggValues(Tail(group_items), agg_field)

\* the value stored under agg_field for one group
AggResult(group_items, agg_field, agg_func) ==
    LET values == AggValues(group_items, agg_field)
    IN  IF values # <<>> THEN CallAgg(agg_func, values) ELSE None

\* the loop over aggregation.items() filling group_result
RECURSIVE Aggregate(_, _, _)
Aggregate(group_result, group_items, aggregation) ==
    IF aggregation = <<>> THEN group_result
    ELSE Aggregate(Put(group_result, Head(aggregation).key,
                       AggResult(group_items, Head(aggregation).key,
                                 Head(aggregation).fn)),
                   group_items, Tail(aggregation))

\* _apply_group_by
ApplyGroupBy(data, field, aggregation) ==
    LET groups == CollectGroups(<<>>, data, field)
    IN  [g \in 1..Len(groups) |->
            Aggregate(<<(<<field, groups[g].key>>)>>, groups[g].items, aggregation)]

\* data[:n + 1]: a limit keeping one record too many
ApplyLimitOneMore(data, n) ==
    IF n + 1 >= 0 THEN SubSeq(data, 1, Min(n + 1, Len(data)))
    ELSE SubSeq(data, 1, Max(Len(data) + n + 1, 0))

\* _apply_limit: data[:n], a negative n counting from the end
ApplyLimit(data, n) ==
    IF n >= 0 THEN SubSeq(data, 1, Min(n, Len(data)))
    ELSE SubSeq(data, 1, Max(Len(data) + n, 0))

\* the body of the try block in execute(): the operator raises
OpRaises(data, op) ==
    CASE op.kind = "where" -> WhereRaises(data, op.cond)
      [] op.kind = "sort" -> SortRaises(data, op.field, op.reverse)
      [] OTHER -> FALSE

\* the body of the try block in execute(): the operator's result
ApplyOp(data, op) ==
    CASE op.kind = "select" -> ApplySelect(data, op.fields)
      [] op.kind = "where" -> ApplyWhere(data, op.cond)
      [] op.kind = "sort" -> ApplySort(data, op.field, op.reverse)
      [] op.kind = "group_by" -> ApplyGroupBy(data, op.field, op.agg)
      [] op.kind = "limit" -> ApplyLimit(data, op.n)

\* the exception the operator raises: the first condition(item) that raises
\* decides for where; sorted() calls itemgetter on every record before it
\* compares any two
OpCause(data, op) ==
    CASE op.kind = "where" ->
            LET i == CHOOSE j \in 1..Len(data) :
                        /\ CondRaises(data[j], op.cond)
                        /\ \A k \in 1..(j - 1) : ~CondRaises(data[k], op.cond)
            IN  IF ~Has(data[i], op.cond.field) THEN "KeyError" ELSE "TypeError"
      [] op.kind = "sort" ->
            IF \E i \in 1..Len(data) : ~Has(data[i], op.field)
            THEN "KeyError" ELSE "TypeError"

\* the for loop going on past an operator that raises, its input handed on
RECURSIVE RunFromBestEffort(_, _)
RunFromBestEffort(trace, ops) ==
    IF ops = <<>> THEN trace
    ELSE RunFromBestEffort(
            Append(trace, IF OpRaises(trace[Len(trace)], Head(ops))
                          THEN trace[Len(trace)]
                          ELSE ApplyOp(trace[Len(trace)], Head(ops))),
            Tail(ops))

\* the for loop of execute(): the record sets seen, starting with the copy of
\* original_data, one more per operator applied, ending at the first raise
RECURSIVE RunFrom(_, _)
RunFrom(trace, ops) ==
    IF ops = <<>> \/ OpRaises(trace[Len(trace)], Head(ops)) THEN trace
    ELSE RunFrom(Append(trace, ApplyOp(trace[Len(trace)], Head(ops))), Tail(ops))

RunPipeline(data, ops) == RunFrom(<<data>>, ops)

----------------------------------------------------------------------------
(* The builders, the user and the calls made on them *)

\* the builders: 1 is built from a record set with the columns a and b,
\* 2 from one with the column a only
Procs == {1, 2}

\* what `last` holds: the call, the builder it was made on, how it ended
\* ("ok", or the exception raised), for a declaration the operator it was
\* called to declare, for execute() the planned operators, the record sets
\* seen and the result or, when it raised, the kind of the operator and the
\* cause the RuntimeError names, for explain() the text it returned, for
\* execute_saved_query the id of the query
Called(call, p, outcome) ==
    [call |-> call, proc |-> p, outcome |-> outcome, op |-> NoOp, plan |-> <<>>,
     trace |-> <<>>, result |-> <<>>, failed |-> "", cause |-> "", text |-> <<>>,
     query |-> ""]

\* DataProcessor.__init__ for each builder, and User.__init__
InitWith(d1, d2) ==
    /\ original_data = [p \in Procs |-> IF p = 1 THEN d1 ELSE d2]
    /\ operations = [p \in Procs |-> <<>>]
    /\ available_fields =
          [p \in Procs |->
              LET data == IF p = 1 THEN d1 ELSE d2
              IN  IF data # <<>> THEN Keys(data[1]) ELSE <<>>]
    /\ current_processor = NoProcessor
    /\ saved_queries = <<>>
    /\ last = Called("", NoProcessor, "ok")

\* _validate_fields returns without raising
FieldsValid(p, fields) ==
    \A i \in 1..Len(fields) : fields[i] \in Range(available_fields[p])

\* a declaration: the fields are validated, then the operator is appended
Declare(p, call, fields, op) ==
    /\ IF FieldsValid(p, fields)
       THEN /\ operations' = [operations EXCEPT ![p] = Append(@, op)]
            /\ last' = [Called(call, p, "ok") EXCEPT !.op = op]
       ELSE /\ UNCHANGED operations
            /\ last' = [Called(call, p, "ValueError") EXCEPT !.op = op]
    /\ UNCHANGED <<original_data, available_fields, current_processor, saved_queries>>

Select(p, fields) == Declare(p, "select", fields, SelectOp(fields))

Where(p, condition) == Declare(p, "where", <<>>, WhereOp(condition))

Sort(p, field, reverse) == Declare(p, "sort", <<field>>, SortOp(field, reverse))

\* group_by validating the group field but not the aggregation keys
GroupByFieldOnly(p, field, aggregation) ==
    Declare(p, "group_by", <<field>>, GroupOp(field, aggregation))

GroupBy(p, field, aggregation) ==
    Declare(p, "group_by", <<field>> \o AggKeys(aggregation),
            GroupOp(field, aggregation))

Limit(p, n) == Declare(p, "limit", <<>>, LimitOp(n))

\* execute() clearing the pending list also when an operator raises
ExecuteOnClearing(p, ops) ==
    IF original_data[p] = <<>>
    THEN [operations |-> ops, last |-> Called("execute", p, "ok")]
    ELSE LET plan == OptimizeOperationsOrder(ops)
             trace == RunPipeline(original_data[p], plan)
         IN  IF Len(trace) = Len(plan) + 1
             THEN [operations |-> <<>>,
                   last |-> [Called("execute", p, "ok") EXCEPT
                               !.plan = plan, !.trace = trace,
                               !.result = trace[Len(trace)]]]
             ELSE [operations |-> <<>>,
                   last |-> [Called("execute", p, "RuntimeError") EXCEPT
                               !.plan = plan, !.trace = trace,
                               !.failed = plan[Len(trace)].kind,
                               !.cause = OpCause(trace[Len(trace)], plan[Len(trace)])]]

\* execute() on builder p whose pending list is ops: the pending list it
\* leaves and what it returns or raises
ExecuteOn(p, ops) ==
    IF original_data[p] = <<>>
    THEN [operations |-> ops, last |-> Called("execute", p, "ok")]
    ELSE LET plan == OptimizeOperationsOrder(ops)
             trace == RunPipeline(original_data[p], plan)
         IN  IF Len(trace) = Len(plan) + 1
             THEN [operations |-> <<>>,
                   last |-> [Called("execute", p, "ok") EXCEPT
                               !.plan = plan, !.trace = trace,
                               !.result = trace[Len(trace)]]]
             ELSE [operations |-> ops,
                   last |-> [Called("execute", p, "RuntimeError") EXCEPT
                               !.plan = plan, !.trace = trace,
                               !.failed = plan[Len(trace)].kind,
                               !.cause = OpCause(trace[Len(trace)], plan[Len(trace)])]]

\* execute() with the operators working on original_data itself, which is
\* left holding the last record set they produced
ExecuteInPlace(p) ==
    LET done == ExecuteOn(p, operations[p])
    IN  /\ operations' = [operations EXCEPT ![p] = done.operations]
        /\ last' = done.last
        /\ original_data' =
              [original_data EXCEPT
                 ![p] = IF done.last.trace = <<>> THEN @
                        ELSE done.last.trace[Len(done.last.trace)]]
        /\ UNCHANGED <<available_fields, current_processor, saved_queries>>

Execute(p) ==
    LET done == ExecuteOn(p, operations[p])
    IN  /\ operations' = [operations EXCEPT ![p] = done.operations]
        /\ last' = done.last
        /\ UNCHANGED <<original_data, available_fields, current_processor, saved_queries>>

\* one line of the plan explain() prints: its number and the operator as shown
ExplainLine(i, op) ==
    CASE op.kind = "select" ->
            [no |-> i, label |-> "SELECT", args |-> op.fields, n |-> 0]
      [] op.kind = "where" ->
            [no |-> i, label |-> "WHERE", args |-> <<>>, n |-> 0]
      [] op.kind = "sort" ->
            [no |-> i, label |-> "SORT",
             args |-> <<op.field, IF op.reverse THEN "desc" ELSE "asc">>, n |-> 0]
      [] op.kind = "group_by" ->
            [no |-> i, label |-> "GROUP BY",
             args |-> <<op.field>> \o AggKeys(op.agg), n |-> 0]
      [] op.kind = "limit" ->
            [no |-> i, label |-> "LIMIT", args |-> <<>>, n |-> op.n]

\* explain() numbering the declared operators, unplanned, from 0
ExplainTextDeclared(ops) == [i \in 1..Len(ops) |-> ExplainLine(i - 1, ops[i])]

\* the string explain() returns, as its lines after the heading; no line at
\* all stands for "no operations to run"
ExplainText(ops) ==
    IF ops = <<>> THEN <<>>
    ELSE LET optimized_ops == OptimizeOperationsOrder(ops)
         IN  [i \in 1..Len(optimized_ops) |-> ExplainLine(i, optimized_ops[i])]

Explain(p) ==
    /\ last' = [Called("explain", p, "ok") EXCEPT !.text = ExplainText(operations[p])]
    /\ UNCHANGED <<original_data, operations, available_fields, current_processor,
                   saved_queries>>

----------------------------------------------------------------------------
(* The query store *)

\* the ids uuid4() hands out
QueryIds == {"q1"}

SetProcessor(p) ==
    /\ current_processor' = p
    /\ last' = Called("set_processor", p, "ok")
    /\ UNCHANGED <<original_data, operations, available_fields, saved_queries>>

\* dict[key] = value on saved_queries
Store(queries, q, entry) ==
    [k \in DOMAIN queries \cup {q} |-> IF k = q THEN entry ELSE queries[k]]

\* q is the id uuid4() returns, one not handed out before
SaveQuery(q, name) ==
    /\ IF current_processor = NoProcessor \/ operations[current_processor] = <<>>
       THEN /\ UNCHANGED saved_queries
            /\ last' = Called("save_query", current_processor, "ValueError")
       ELSE /\ q \notin DOMAIN saved_queries
            /\ saved_queries' =
                  Store(saved_queries, q,
                        [id |-> q, name |-> name,
                         operations |-> operations[current_processor]])
            /\ last' = Called("save_query", current_processor, "ok")
    /\ UNCHANGED <<original_data, operations, available_fields, current_processor>>

\* load_query returns without raising
CanLoad(q) == q \in DOMAIN saved_queries /\ current_processor # NoProcessor

LoadQuery(q) ==
    /\ IF CanLoad(q)
       THEN /\ operations' = [operations EXCEPT
                                ![current_processor] = saved_queries[q].operations]
            /\ last' = Called("load_query", current_processor, "ok")
       ELSE /\ UNCHANGED operations
            /\ last' = Called("load_query", current_processor, "ValueError")
    /\ UNCHANGED <<original_data, available_fields, current_processor, saved_queries>>

\* execute_saved_query on a builder handed the stored list itself, not a
\* copy: the clear() of execute() empties the stored query as well
ExecuteSavedQueryShared(q) ==
    /\ IF CanLoad(q)
       THEN LET done == ExecuteOn(current_processor, saved_queries[q].operations)
            IN  /\ operations' = [operations EXCEPT
                                    ![current_processor] = done.operations]
                /\ saved_queries' = [saved_queries EXCEPT
                                       ![q].operations = done.operations]
                /\ last' = [done.last EXCEPT !.query = q]
       ELSE /\ UNCHANGED <<operations, saved_queries>>
            /\ last' = Called("execute_saved_query", current_processor, "ValueError")
    /\ UNCHANGED <<original_data, available_fields, current_processor>>

\* load_query(query_id) followed by execute() on the builder it returns
ExecuteSavedQuery(q) ==
    /\ IF CanLoad(q)
       THEN LET done == ExecuteOn(current_processor, saved_queries[q].operations)
            IN  /\ operations' = [operations EXCEPT
                                    ![current_processor] = done.operations]
                /\ last' = [done.last EXCEPT !.query = q]
       ELSE /\ UNCHANGED operations
            /\ last' = Called("execute_saved_query", current_processor, "ValueError")
    /\ UNCHANGED <<original_data, available_fields, current_processor, saved_queries>>

DeleteQuery(q) ==
    /\ saved_queries' = [k \in DOMAIN saved_queries \ {q} |-> saved_queries[k]]
    /\ last' = Called("delete_query", current_processor, "ok")
    /\ UNCHANGED <<original_data, operations, available_fields, current_processor>>

----------------------------------------------------------------------------
(* The builder driven through chains of declarations *)

\* the record sets builder 1 is constructed from
SampleData ==
    { <<>>,
      <<Rec(2, 1), Rec(None, 2), Rec(2, 2)>>,
      <<Rec(1, None), Rec(2, 2)>> }

\* the record set builder 2 is constructed from
OtherData == <<RecA(1), RecA(2)>>

\* the arguments the declarations are called with; z is in no schema
SelectArgs == { <<"b", "a">>, <<"a", "a">>, <<"z">>, <<"a", "z">> }

WhereArgs == { [field |-> "a", test |-> "is_none"], [field |-> "b", test |-> "gt1"] }

SortArgs == { <<"a", FALSE>>, <<"b", TRUE>>, <<"z", FALSE>> }

GroupArgs ==
    { <<"a", <<>>>>, <<"a", Agg1("b", "sum_agg")>>, <<"b", Agg1("b", "count_agg")>>,
      <<"z", <<>>>>, <<"a", Agg1("z", "sum_agg")>> }

LimitArgs == { -1, 1, 2 }

\* the arguments offered to a declaration on builder p: none once its pending
\* list holds max operators
Offered(p, args, max) == IF Len(operations[p]) < max THEN args ELSE {}

Init == \E d \in SampleData : InitWith(d, OtherData)

Next ==
    \/ \E fields \in Offered(1, SelectArgs, MaxOps) : Select(1, fields)
    \/ \E condition \in Offered(1, WhereArgs, MaxOps) : Where(1, condition)
    \/ \E s \in Offered(1, SortArgs, MaxOps) : Sort(1, s[1], s[2])
    \/ \E g \in Offered(1, GroupArgs, MaxOps) : GroupBy(1, g[1], g[2])
    \/ \E n \in Offered(1, LimitArgs, MaxOps) : Limit(1, n)
    \/ Execute(1)
    \/ Explain(1)

Spec == Init /\ [][Next]_vars

----------------------------------------------------------------------------
(* One operator at a time, on every record set of up to MaxRecs records *)

\* the values of a column
Values == {None, 1, 2}

Records == {Rec(a, b) : a \in Values, b \in Values}

RecordSets == UNION {[1..k -> Records] : k \in 0..MaxRecs}

AggArgs ==
    { <<>>, Agg1("a", "sum_agg"), Agg1("b", "count_agg"), Agg1("b", "max_agg"),
      Agg1("a", "min_agg"), Agg1("b", "first"), Agg2("b", "sum_agg", "a", "count_agg"),
      Agg2("a", "max_agg", "b", "min_agg") }

InitOps == \E d \in RecordSets : InitWith(d, OtherData)

NextOps ==
    \/ \E field \in {"a", "b"}, aggregation \in Offered(1, AggArgs, 1) :
          GroupBy(1, field, aggregation)
    \/ \E field \in {"a", "b"}, reverse \in Offered(1, BOOLEAN, 1) :
          Sort(1, field, reverse)
    \/ Execute(1)

SpecOps == InitOps /\ [][NextOps]_vars

----------------------------------------------------------------------------
(* The user's query store over the two builders *)

UserSelectArgs == { <<"b">> }

UserLimitArgs == { 1 }

InitUser == InitWith(<<Rec(1, 2), Rec(2, 1)>>, OtherData)

NextUser ==
    \/ \E p \in Procs : \E fields \in Offered(p, UserSelectArgs, MaxOps) :
          Select(p, fields)
    \/ \E p \in Procs : \E n \in Offered(p, UserLimitArgs, MaxOps) : Limit(p, n)
    \/ \E p \in Procs : Execute(p)
    \/ \E p \in Procs : SetProcessor(p)
    \/ \E q \in QueryIds : SaveQuery(q, "name")
    \/ \E q \in QueryIds : LoadQuery(q)
    \/ \E q \in QueryIds : ExecuteSavedQuery(q)
    \/ \E q \in QueryIds : DeleteQuery(q)

SpecUser == InitUser /\ [][NextUser]_vars

----------------------------------------------------------------------------
(* Properties *)

\* the place of a kind in the canonical order
Rank(kind) ==
    CASE kind = "where" -> 1
      [] kind = "group_by" -> 2
      [] kind = "sort" -> 3
      [] kind = "select" -> 4
      [] kind = "limit" -> 5

\* the ways of taking the elements of a list of n operators one by one
AllOrders ==
    [n \in 0..MaxOps |->
        {f \in [1..n -> 1..n] : \A i, j \in 1..n : i # j => f[i] # f[j]}]

Orders(n) == AllOrders[n]

\* f takes the operators of one kind in the order they have in ops
KeepsKinds(ops, f) ==
    \A i, j \in 1..Len(ops) :
        i < j /\ ops[f[i]].kind = ops[f[j]].kind => f[i] < f[j]

\* out holds the operators of ops, kind after kind in the canonical order,
\* those of one kind in the order they have in ops
Canonical(ops, out) ==
    /\ Len(out) = Len(ops)
    /\ \E f \in Orders(Len(ops)) :
          /\ \A i \in 1..Len(ops) : out[i] = ops[f[i]]
          /\ KeepsKinds(ops, f)
    /\ \A i, j \in 1..Len(out) : i < j => Rank(out[i].kind) <= Rank(out[j].kind)

\* ops holds two different operators of one kind, and an operator declared
\* before one that the canonical order puts ahead of it
OutOfOrder(ops) ==
    /\ \E i, j \in 1..Len(ops) : i < j /\ ops[i].kind = ops[j].kind /\ ops[i] # ops[j]
    /\ \E i, j \in 1..Len(ops) : i < j /\ Rank(ops[i].kind) > Rank(ops[j].kind)

\* C1: for every pending operator list the planner returns a permutation of
\* it with all where operators first, then all group_by, then all sort, then
\* all select, then all limit operators, those of one kind in their declared
\* order; planning the planned list again changes nothing.
C1_PlannerCanonical ==
    \A p \in Procs : \A out \in {OptimizeOperationsOrder(operations[p])} :
        /\ Canonical(operations[p], out)
        /\ OptimizeOperationsOrder(out) = out

\* explain() has just planned a pending list declared out of canonical order
\* that holds two operators of one kind
C1_Witness ==
    /\ last.call = "explain"
    /\ OutOfOrder(operations[last.proc])
    /\ Len(last.text) = Len(operations[last.proc])

\* the declaration sequences with the operators of ops, those of one kind in
\* the order they have in ops
Rechained(ops) ==
    {[i \in 1..Len(ops) |-> ops[f[i]]] : f \in {g \in Orders(Len(ops)) : KeepsKinds(ops, g)}}

\* C2: execute() ends the same way - the same result, or the same error at
\* the same operator - for every declaration sequence that holds the executed
\* operators chained in another order of the kinds, the operators of one kind
\* keeping their relative order.
C2_DeclaredOrderIndependent ==
    last.call = "execute" =>
        \A ops \in Rechained(last.plan) : ExecuteOn(last.proc, ops).last = last

\* execute() has returned a result that differs from the original records
\* for a query of three kinds of operator, which can be chained in six orders
C2_Witness ==
    /\ last.call = "execute"
    /\ last.outcome = "ok"
    /\ Cardinality({last.plan[i].kind : i \in 1..Len(last.plan)}) = 3
    /\ Cardinality(Rechained(last.plan)) = 6
    /\ last.result # <<>>
    /\ last.result # original_data[last.proc]

\* C3: whenever execute() returns a result without raising, the builder's
\* pending operator list is empty afterwards.
C3_ExecuteClearsPending ==
    last.call = "execute" /\ last.outcome = "ok" => operations[last.proc] = <<>>

\* the fields a select, sort or group_by operator refers to
FieldsOf(op) ==
    CASE op.kind = "select" -> Range(op.fields)
      [] op.kind = "sort" -> {op.field}
      [] op.kind = "group_by" -> {op.field} \cup Range(AggKeys(op.agg))
      [] OTHER -> {}

\* C4: a select, sort or group_by declared with a field (an aggregation key
\* of group_by included) that is not in the builder's schema raises the
\* schema error and leaves the pending operator list as it was.
C4_BadFieldRaisesAndKeepsPending ==
    [][ (/\ last'.call \in {"select", "sort", "group_by"}
         /\ ~(FieldsOf(last'.op) \subseteq Range(available_fields[last'.proc])))
        => (/\ last'.outcome = "ValueError"
            /\ operations' = operations) ]_vars

\* group_by has raised for an aggregation key outside the schema, its group
\* field being in the schema, on a builder with operators pending
C4_Witness ==
    /\ last.call = "group_by"
    /\ last.outcome = "ValueError"
    /\ last.op.field \in Range(available_fields[last.proc])
    /\ operations[last.proc] # <<>>

\* C5: in every reachable state, after any declarations, execute() calls and
\* query-store calls, every field a select, sort or group_by operator of a
\* builder's pending list refers to is in that builder's schema.
C5_PendingFieldsInSchema ==
    \A p \in Procs : \A i \in 1..Len(operations[p]) :
        FieldsOf(operations[p][i]) \subseteq Range(available_fields[p])

\* the record set the last operator of the plan was applied to
BeforeLast == last.trace[Len(last.trace) - 1]

\* execute() has returned after applying a plan that ends with limit
LimitAppliedLast ==
    /\ last.call = "execute"
    /\ last.outcome = "ok"
    /\ last.plan # <<>>
    /\ last.plan[Len(last.plan)].kind = "limit"

\* the result is the first min(n, number of records) records it was cut from
CutToFirst(n) ==
    /\ Len(last.result) = Min(n, Len(BeforeLast))
    /\ last.result = SubSeq(BeforeLast, 1, Len(last.result))

\* C6 as stated: for every query whose last executed operator is limit(n),
\* the result of execute() has min(n, number of records left after the
\* preceding operators) records and is the prefix of those records.
C6_LimitIsMinPrefix ==
    LimitAppliedLast => CutToFirst(last.plan[Len(last.plan)].n)

\* C6 amended: the same for every limit(n) with n >= 0.
C6_LimitIsMinPrefixFromZero ==
    LimitAppliedLast /\ last.plan[Len(last.plan)].n >= 0
        => CutToFirst(last.plan[Len(last.plan)].n)

\* a limit(n), n >= 0, applied last has dropped records, after another
\* operator had dropped some
C6_Witness ==
    /\ LimitAppliedLast
    /\ last.plan[Len(last.plan)].n >= 0
    /\ Len(last.plan) >= 2
    /\ Len(last.result) < Len(BeforeLast)
    /\ Len(BeforeLast) < Len(original_data[last.proc])

\* the members of a set of indices as a list, smallest first
Listed(idx) ==
    [g \in 1..Cardinality(idx) |->
        CHOOSE j \in idx : Cardinality({k \in idx : k < j}) = g - 1]

\* the places of data at which a value of `field` (None for a record without
\* it) is seen for the first time, in input order
FirstSeen(data, field) ==
    Listed({j \in 1..Len(data) :
              \A k \in 1..(j - 1) : Get(data[k], field) # Get(data[j], field)})

\* the steps of the last execute() that applied an operator of a kind
Steps(kind) ==
    {i \in 1..Len(last.plan) : last.plan[i].kind = kind /\ i < Len(last.trace)}

\* C7: group_by(field, aggregations) emits one output record per distinct
\* value of field among its input records (None being a group of its own),
\* in the order in which the group keys are first seen in the input, and each
\* output record maps field to its group's key.
C7_GroupPerKeyInFirstSeenOrder ==
    last.call = "execute" =>
        \A i \in Steps("group_by") :
            LET field == last.plan[i].field
                input == last.trace[i]
                output == last.trace[i + 1]
                first == FirstSeen(input, field)
            IN  /\ Len(output) = Len(first)
                /\ \A g \in 1..Len(output) :
                      /\ Has(output[g], field)
                      /\ Item(output[g], field) = Get(input[first[g]], field)

\* the values of agg_field that are not None among the records of input whose
\* value of field is key, in input order
GroupValues(input, field, key, agg_field) ==
    LET members == SelectSeq(input, LAMBDA r : Get(r, field) = key)
        column == [j \in 1..Len(members) |-> Get(members[j], agg_field)]
    IN  SelectSeq(column, LAMBDA v : v # None)

\* C8: in each group_by output record every aggregation field holds the
\* aggregation function applied to the values of that field that are not None
\* within the group, in input order, and holds None when the group has no
\* such value.
C8_AggregatesNonNullValues ==
    last.call = "execute" =>
        \A i \in Steps("group_by") :
            LET field == last.plan[i].field
                input == last.trace[i]
                output == last.trace[i + 1]
                first == FirstSeen(input, field)
            IN  /\ Len(output) = Len(first)
                /\ \A g \in 1..Len(output) : \A e \in Range(last.plan[i].agg) :
                      LET values == GroupValues(input, field,
                                                Get(input[first[g]], field), e.key)
                      IN  /\ Has(output[g], e.key)
                          /\ Item(output[g], e.key) =
                                IF values = <<>> THEN None ELSE CallAgg(e.fn, values)

\* a group_by has aggregated with an order-sensitive function a group whose
\* values differ, and has met a group without any value
C8_Witness ==
    /\ last.call = "execute"
    /\ last.outcome = "ok"
    /\ \E i \in Steps("group_by") : \E e \in Range(last.plan[i].agg) :
          LET field == last.plan[i].field
              input == last.trace[i]
              first == FirstSeen(input, field)
          IN  /\ e.fn = "first"
              /\ \E g \in 1..Len(first) :
                    LET values == GroupValues(input, field,
                                              Get(input[first[g]], field), e.key)
                    IN  Len(values) = 2 /\ values[1] # values[2]
              /\ \E g \in 1..Len(first) :
                    /\ GroupValues(input, field, Get(input[first[g]], field), e.key) = <<>>
                    /\ Item(last.trace[i + 1][g], e.key) = None

\* the fields of a select, each once, in the order of their first mention
Requested(fields) ==
    LET idx == Listed({j \in 1..Len(fields) :
                         \A k \in 1..(j - 1) : fields[k] # fields[j]})
    IN  [g \in 1..Len(idx) |-> fields[idx[g]]]

\* C9: select(fields) never fails on a missing field: each output record has
\* exactly the requested fields in the requested order, with None for a
\* requested field the incoming record lacks, such as one a preceding
\* group_by did not produce.
C9_SelectFillsMissingWithNone ==
    last.call = "execute" =>
        \A i \in 1..Len(last.plan) :
            last.plan[i].kind = "select" /\ i <= Len(last.trace) =>
                /\ i < Len(last.trace)
                /\ last.failed # "select"
                /\ LET fields == last.plan[i].fields
                       input == last.trace[i]
                       output == last.trace[i + 1]
                   IN  /\ Len(output) = Len(input)
                       /\ \A j \in 1..Len(output) :
                             /\ Keys(output[j]) = Requested(fields)
                             /\ \A f \in Range(fields) :
                                   Item(output[j], f) =
                                      IF Has(input[j], f) THEN Item(input[j], f)
                                      ELSE None

\* a select has run on the output of a group_by that lacks a requested
\* field, which every original record holds a value for
C9_Witness ==
    /\ last.call = "execute"
    /\ last.outcome = "ok"
    /\ \E i \in Steps("select") : \E f \in Range(last.plan[i].fields) :
          /\ i > 1
          /\ last.plan[i - 1].kind = "group_by"
          /\ last.trace[i] # <<>>
          /\ \A j \in 1..Len(last.trace[i]) : ~Has(last.trace[i][j], f)
          /\ \A j \in 1..Len(last.trace[1]) : Get(last.trace[1][j], f) # None
          /\ Len(last.plan[i].fields) = 2

\* the places of ops listed kind after kind in the canonical order, those of
\* one kind from the first declared to the last
ByRank(ops) ==
    [g \in 1..Len(ops) |->
        CHOOSE j \in 1..Len(ops) :
            Cardinality({k \in 1..Len(ops) :
                           \/ Rank(ops[k].kind) < Rank(ops[j].kind)
                           \/ Rank(ops[k].kind) = Rank(ops[j].kind) /\ k < j}) = g - 1]

\* the operators of ops as explain() shows them, numbered from 1, kind after
\* kind in the canonical order
ListedByRank(ops) ==
    LET at == ByRank(ops)
    IN  [i \in 1..Len(ops) |-> ExplainLine(i, ops[at[i]])]

\* the operators execute() plans to apply as explain() shows them, numbered
\* from 1
ListedPlan(plan) == [i \in 1..Len(plan) |-> ExplainLine(i, plan[i])]

\* C10: explain() leaves the builder unchanged - pending operator list,
\* schema and original record set - and lists the pending operators numbered
\* from 1 in the canonical order in which execute() would apply them.
C10_ExplainListsPlanAndKeepsBuilder ==
    [][ \A p \in Procs :
          last'.call = "explain" /\ last'.proc = p =>
            /\ operations' = operations
            /\ available_fields' = available_fields
            /\ original_data' = original_data
            /\ last'.text = ListedByRank(operations[p])
            /\ original_data[p] # <<>> =>
                  last'.text = ListedPlan(ExecuteOn(p, operations[p]).last.plan) ]_vars

\* explain() has listed a pending list declared out of canonical order on a
\* builder with records
C10_Witness ==
    /\ last.call = "explain"
    /\ Len(last.text) = 3
    /\ OutOfOrder(operations[last.proc])
    /\ original_data[last.proc] # <<>>

\* C11: when an operator fails during execute(), execution stops at the first
\* failing operator in canonical order: every operator before it was applied
\* to the output of the one before, none after it is applied, no result is
\* returned, and the error raised names the kind of the failing operator and
\* the original cause; execute() returns a result only when no operator fails.
C11_StopsAtFirstFailingOperator ==
    last.call = "execute" /\ last.trace # <<>> =>
        \A at \in {Len(last.trace)} :
            /\ last.trace[1] = original_data[last.proc]
            /\ at <= Len(last.plan) + 1
            /\ \A i \in 1..(at - 1) :
                  /\ ~OpRaises(last.trace[i], last.plan[i])
                  /\ last.trace[i + 1] = ApplyOp(last.trace[i], last.plan[i])
            /\ IF at <= Len(last.plan)
               THEN /\ OpRaises(last.trace[at], last.plan[at])
                    /\ last.outcome = "RuntimeError"
                    /\ last.failed = last.plan[at].kind
                    /\ last.cause = OpCause(last.trace[at], last.plan[at])
                    /\ last.cause \in {"KeyError", "TypeError"}
                    /\ last.result = <<>>
               ELSE /\ last.outcome = "ok"
                    /\ last.failed = ""
                    /\ last.result = last.trace[at]

\* execute() has raised at the second of three planned operators, after the
\* first had changed the record set
C11_Witness ==
    /\ last.call = "execute"
    /\ last.outcome = "RuntimeError"
    /\ Len(last.plan) = 3
    /\ Len(last.trace) = 2
    /\ last.trace[2] # last.trace[1]
    /\ last.failed = last.plan[2].kind
    /\ last.cause = "KeyError"

\* C12: a query stored by save_query is a copy by value: no declaration,
\* execute(), load_query or execute_saved_query changes a stored query - only
\* delete_query takes it away - and every execute_saved_query applies the
\* stored operator list, planned, to the records of the current builder.
C12_StoredQueryKeptByValue ==
    [][ \A q \in DOMAIN saved_queries :
          /\ last'.call # "delete_query" =>
                /\ q \in DOMAIN saved_queries'
                /\ saved_queries'[q] = saved_queries[q]
          /\ \A p \in Procs :
                last'.query = q /\ last'.proc = p =>
                   /\ current_processor = p
                   /\ last'.plan = OptimizeOperationsOrder(saved_queries[q].operations)
                   /\ last'.trace = RunPipeline(original_data[p], last'.plan) ]_vars

\* execute_saved_query has returned the result of a stored query of two
\* operators: the builder's pending list is cleared, the stored list is not
C12_Witness ==
    /\ last.query \in DOMAIN saved_queries
    /\ last.outcome = "ok"
    /\ operations[last.proc] = <<>>
    /\ Len(saved_queries[last.query].operations) = 2
    /\ last.plan = OptimizeOperationsOrder(saved_queries[last.query].operations)
    /\ last.result # original_data[last.proc]

\* the schema __init__ derives from a record set: the keys of its first
\* record, none for an empty one
SchemaOf(data) == IF data # <<>> THEN Keys(data[1]) ELSE <<>>

\* C13: no builder operation - declaration, explain(), execute() that returns
\* or that raises - changes the original record set of a builder (its length,
\* the order of its records, the fields and values of each record) or its
\* schema, which stays the one derived from the first record at construction.
C13_OriginalDataAndSchemaKept ==
    /\ [](\A p \in Procs : available_fields[p] = SchemaOf(original_data[p]))
    /\ [][ /\ original_data' = original_data
           /\ available_fields' = available_fields ]_vars

\* execute() has returned records in another order, with other fields, than
\* the original record set, which is still the one the builder was built from
C13_Witness ==
    /\ last.call = "execute"
    /\ last.outcome = "ok"
    /\ \E i \in Steps("sort") : last.trace[i + 1] # last.trace[i]
    /\ \E i \in Steps("select") : last.trace[i + 1] # last.trace[i]
    /\ original_data[last.proc] = last.trace[1]
    /\ original_data[last.proc] \in SampleData
    /\ last.result # original_data[last.proc]

\* the ways of listing the places 1..n, each once
Places(n) == {f \in [1..n -> 1..n] : \A i, j \in 1..n : i # j => f[i] # f[j]}

\* output holds the records of input ordered by field in the direction
\* asked for, those of equal value in the order they have in input
StablySorted(input, output, field, reverse) ==
    /\ Len(output) = Len(input)
    /\ \E f \in Places(Len(input)) :
          /\ \A g \in 1..Len(input) : output[g] = input[f[g]]
          /\ \A g, h \in 1..Len(input) :
                g < h =>
                   /\ ~Before(output[h], output[g], field, reverse)
                   /\ Item(output[g], field) = Item(output[h], field) => f[g] < f[h]

\* C14: sort(field, reverse) is stable in both directions: its output is a
\* permutation of its input ordered by the value of field, ascending, or
\* descending when reverse is true, and records with equal values of field
\* keep their relative input order, also when reverse is true.
C14_SortStableBothDirections ==
    last.call = "execute" =>
        \A i \in Steps("sort") :
            StablySorted(last.trace[i], last.trace[i + 1],
                         last.plan[i].field, last.plan[i].reverse)

\* a descending sort has moved records, two of which differ and have the same
\* value of the sort field
C14_Witness ==
    /\ last.call = "execute"
    /\ last.outcome = "ok"
    /\ \E i \in Steps("sort") :
          LET input == last.trace[i]
              field == last.plan[i].field
          IN  /\ last.plan[i].reverse
              /\ Len(input) = 3
              /\ last.trace[i + 1] # input
              /\ \E j, k \in 1..Len(input) :
                    /\ j < k
                    /\ Item(input[j], field) = Item(input[k], field)
                    /\ input[j] # input[k]

\* the places of the operators of a kind in the plan of the last execute()
Planned(kind) == {i \in 1..Len(last.plan) : last.plan[i].kind = kind}

\* the last execute() handed at least one record to a group_by
ReachesGroupBy ==
    \E g \in Planned("group_by") : g <= Len(last.trace) /\ last.trace[g] # <<>>

\* the last execute() raised the execution error naming sort and left the
\* pending operator list holding the operators it planned
RaisedAtSortUncleared ==
    /\ last.outcome = "RuntimeError"
    /\ last.failed = "sort"
    /\ operations[last.proc] # <<>>
    /\ OptimizeOperationsOrder(operations[last.proc]) = last.plan

====
